---- MODULE Spec2Model ----
(***************************************************************************)
(* LOF fund premium monitor: final_lof_fund_scraper.py and                 *)
(* fund_limit_fetcher.py.                                                  *)
(*                                                                         *)
(* Text is modelled as a sequence of one-character strings, so that        *)
(* strip(), startswith(), endswith(), slicing and float() are computed     *)
(* as Python computes them.  A Chinese literal of the source is written    *)
(* as one ASCII token; the comment beside each token gives the literal.    *)
(* Floats are integers in hundredths (8.50 is 850), plus NaN.              *)
(***************************************************************************)
EXTENDS Integers, Sequences, FiniteSets, TLC

VARIABLES
    pc,                    \* position of the run inside generate_and_save_fund_summary
    web,                   \* what the aggregator site serves during this run
    FUND_LIMIT_AVAILABLE,  \* module flag set by the import at lines 20-28
    fund_limits_config,    \* load_fund_limits_config(): code -> predefined limit text
    premium_threshold,     \* load_config()['premium_threshold'], in hundredths
    fund_basic_data,       \* first list returned by scrape_lof_fund_data
    fund_valuation_data,   \* second list returned by scrape_lof_fund_data
    sorted_codes,          \* sorted(all_codes), line 269
    fund_info,             \* the fund_info dict objects, one per code (line 285)
    all_funds_info,        \* list of references (codes) to the dicts, line 272
    high_premium_funds,    \* list of references (codes) to the same dicts, line 265
    idx,                   \* position of "for fund in high_premium_funds", line 317
    attempt,               \* loop variable of get_fund_limit_in_main, line 420
    call_log,              \* outcome of each GET of the current fetcher call
    sleeps,                \* time.sleep(2 ** attempt) delays of the current fetcher call
    limit_result,          \* value the current lookup call returned
    visited,               \* codes the lookup loop has processed, in order
    outcome,               \* per code: what its lookup produced
    gets,                  \* detail-page GET requests issued, in order
    posts,                 \* webhook POST requests issued
    post_outcome,          \* what the webhook answered
    message,               \* the rendered alert
    arg,                   \* argument of the pure function under test
    ret                    \* its return value

vars == << pc, web, FUND_LIMIT_AVAILABLE, fund_limits_config, premium_threshold,
           fund_basic_data, fund_valuation_data, sorted_codes, fund_info,
           all_funds_info, high_premium_funds, idx, attempt, call_log, sleeps,
           limit_result, visited, outcome, gets, posts, post_outcome, message,
           arg, ret >>

-----------------------------------------------------------------------------
(* Text helpers: Python str methods.                                       *)

Whitespace == {" ", "\t", "\n"}

Digits == {"0", "1", "2", "3", "4", "5", "6", "7", "8", "9"}

DigitVal(c) ==
    CASE c = "0" -> 0 [] c = "1" -> 1 [] c = "2" -> 2 [] c = "3" -> 3
      [] c = "4" -> 4 [] c = "5" -> 5 [] c = "6" -> 6 [] c = "7" -> 7
      [] c = "8" -> 8 [] c = "9" -> 9

\* ord(c) for the characters the model uses (code points of the source's strings).
Ord(c) ==
    CASE c = "\t" -> 9 [] c = "\n" -> 10 [] c = " " -> 32 [] c = "%" -> 37
      [] c = "(" -> 40 [] c = ")" -> 41 [] c = "+" -> 43 [] c = "-" -> 45
      [] c = "." -> 46 [] c \in Digits -> 48 + DigitVal(c)
      [] c = "A" -> 65 [] c = "H" -> 72 [] c = "N" -> 78 [] c = "S" -> 83
      [] c = "X" -> 88 [] c = "Z" -> 90
      [] c = "a" -> 97 [] c = "n" -> 110 [] c = "x" -> 120
      [] OTHER -> 20000

\* s[i:] and s[:n]
DropPrefix(s, n) == SubSeq(s, n + 1, Len(s))

TakePrefix(s, n) == SubSeq(s, 1, n)

\* s.startswith(p), s.endswith(p)
StartsWith(s, p) == Len(s) >= Len(p) /\ TakePrefix(s, Len(p)) = p

EndsWith(s, p) == Len(s) >= Len(p) /\ SubSeq(s, Len(s) - Len(p) + 1, Len(s)) = p

RECURSIVE LStripChars(_, _)
LStripChars(s, chars) ==
    IF s # <<>> /\ Head(s) \in chars THEN LStripChars(Tail(s), chars) ELSE s

RECURSIVE RStripChars(_, _)
RStripChars(s, chars) ==
    IF s # <<>> /\ s[Len(s)] \in chars
    THEN RStripChars(SubSeq(s, 1, Len(s) - 1), chars)
    ELSE s

\* s.strip(chars); s.strip() is StripChars(s, Whitespace)
StripChars(s, chars) == RStripChars(LStripChars(s, chars), chars)

Strip(s) == StripChars(s, Whitespace)

\* Python truthiness of a str
Truthy(s) == s # <<>>

\* a < b on str: lexicographic by code point
RECURSIVE StrLess(_, _)
StrLess(a, b) ==
    IF b = <<>> THEN FALSE
    ELSE IF a = <<>> THEN TRUE
    ELSE IF Head(a) = Head(b) THEN StrLess(Tail(a), Tail(b))
    ELSE Ord(Head(a)) < Ord(Head(b))

Range(s) == {s[i] : i \in 1..Len(s)}

-----------------------------------------------------------------------------
(* float(text), as far as the model's alphabet reaches: surrounding        *)
(* whitespace is ignored, then an optional sign, then "nan" in any case    *)
(* or digits with at most one point.  Anything else is a ValueError.       *)
(* The result is [ok |-> FALSE] for ValueError, else [ok, nan, v] with v   *)
(* in hundredths; the texts the model feeds it carry at most two           *)
(* fractional digits.                                                      *)

RECURSIVE DigitsValue(_)
DigitsValue(s) ==
    IF s = <<>> THEN 0 ELSE DigitsValue(SubSeq(s, 1, Len(s) - 1)) * 10 + DigitVal(s[Len(s)])

AllDigits(s) == \A i \in 1..Len(s) : s[i] \in Digits

Lower(c) == CASE c = "N" -> "n" [] c = "A" -> "a" [] c = "X" -> "x" [] OTHER -> c

ValueError == [ok |-> FALSE, nan |-> FALSE, v |-> 0]

Number(n) == [ok |-> TRUE, nan |-> FALSE, v |-> n]

NaN == [ok |-> TRUE, nan |-> TRUE, v |-> 0]

\* the unsigned part of a float literal
Magnitude(s) ==
    LET points == {i \in 1..Len(s) : s[i] = "."}
    IN  IF [i \in 1..Len(s) |-> Lower(s[i])] = <<"n", "a", "n">> THEN NaN
        ELSE IF points = {} THEN
            IF s # <<>> /\ AllDigits(s) THEN Number(DigitsValue(s) * 100) ELSE ValueError
        ELSE IF Cardinality(points) > 1 THEN ValueError
        ELSE LET p == CHOOSE i \in points : TRUE
                 int == SubSeq(s, 1, p - 1)
                 frac == SubSeq(s, p + 1, Len(s))
                 two == SubSeq(frac \o <<"0", "0">>, 1, 2)
             IN  IF AllDigits(int) /\ AllDigits(frac) /\ (int # <<>> \/ frac # <<>>)
                 THEN Number(DigitsValue(int) * 100 + DigitsValue(two))
                 ELSE ValueError

Float(text) ==
    LET s == Strip(text)
        signed == s # <<>> /\ Head(s) \in {"+", "-"}
        m == Magnitude(IF signed THEN Tail(s) ELSE s)
    IN  IF m.ok /\ ~m.nan /\ signed /\ Head(s) = "-" THEN Number(0 - m.v) ELSE m

\* a >= b and a < b on floats: every comparison with NaN is false
FloatGE(a, b) == ~a.nan /\ ~b.nan /\ a.v >= b.v

FloatLT(a, b) == ~a.nan /\ ~b.nan /\ a.v < b.v

-----------------------------------------------------------------------------
(* Valuation Resolver.  A valuation record is a function from the keys it  *)
(* holds to text; {} (a code found only in the basic table) has no key.    *)
(*   premium            the key '溢价'      (official premium)             *)
(*   reference_premium  the key '参考溢价'                                 *)
(*   realtime_premium   the key '实时溢价'                                 *)
(* The valuation types are "reference" ('参考'), "realtime" ('实时') and   *)
(* "official" ('官方').                                                    *)

\* d.get(key): None is modelled as the empty text, which is as falsy
Get(d, key) == IF key \in DOMAIN d THEN d[key] ELSE <<>>

Present(d, key) == Truthy(Get(d, key)) /\ Truthy(Strip(d[key]))

\* faulty variant: real-time is consulted before reference
get_best_valuation_premium_realtime_first(fund_valuation) ==
    IF Present(fund_valuation, "realtime_premium")
    THEN <<fund_valuation["realtime_premium"], "realtime">>
    ELSE IF Present(fund_valuation, "reference_premium")
    THEN <<fund_valuation["reference_premium"], "reference">>
    ELSE IF Present(fund_valuation, "premium")
    THEN <<fund_valuation["premium"], "official">>
    ELSE <<<<>>, "">>

get_best_valuation_premium(fund_valuation) ==
    IF Present(fund_valuation, "reference_premium")
    THEN <<fund_valuation["reference_premium"], "reference">>
    ELSE IF Present(fund_valuation, "realtime_premium")
    THEN <<fund_valuation["realtime_premium"], "realtime">>
    ELSE IF Present(fund_valuation, "premium")
    THEN <<fund_valuation["premium"], "official">>
    ELSE <<<<>>, "">>

-----------------------------------------------------------------------------
(* parse_premium_rate, lines 295-304.                                      *)

parse_premium_rate(rate_str) ==
    LET f == IF EndsWith(rate_str, <<"%">>) THEN Float(StripChars(rate_str, {"%"}))
             ELSE IF Truthy(rate_str) THEN Float(rate_str)
             ELSE Number(0)
    IN  IF f.ok THEN f ELSE Number(0)

-----------------------------------------------------------------------------
(* Market Table Scraper, scrape_lof_fund_data.  A table is the sequence of *)
(* its tr rows, the header row first; a row is the sequence of the raw     *)
(* texts of its td cells.  A table the page lacks has no rows.             *)

SH == <<"S", "H">>

SZ == <<"S", "Z">>

\* cols[i].get_text(strip=True), i counted from 0 as in the source
CellText(cols, i) == Strip(cols[i + 1])

\* faulty variant: five characters are enough
ValidCodeFive(code) == (StartsWith(code, SH) \/ StartsWith(code, SZ)) /\ Len(code) >= 5

\* line 64 and line 84
ValidCode(code) == (StartsWith(code, SH) \/ StartsWith(code, SZ)) /\ Len(code) >= 6

\* rows[1:]
SkipHeader(rows) == IF rows = <<>> THEN <<>> ELSE Tail(rows)

BasicRecord(cols) ==
    [code |-> CellText(cols, 0), price |-> CellText(cols, 1),
     change |-> CellText(cols, 2), date |-> CellText(cols, 3),
     time |-> CellText(cols, 4), name |-> CellText(cols, 5)]

BasicRowAccepted(cols) == Len(cols) >= 6 /\ ValidCode(CellText(cols, 0))

ValuationRecord(cols) ==
    [code |-> CellText(cols, 0),
     official_estimate |-> CellText(cols, 1),
     estimate_date |-> CellText(cols, 2),
     premium |-> CellText(cols, 3),
     reference_estimate |-> IF Len(cols) >= 6 THEN CellText(cols, 4) ELSE <<>>,
     reference_premium |-> IF Len(cols) >= 6 THEN CellText(cols, 5) ELSE <<>>,
     realtime_estimate |-> IF Len(cols) >= 8 THEN CellText(cols, 6) ELSE <<>>,
     realtime_premium |-> IF Len(cols) >= 8 THEN CellText(cols, 7) ELSE <<>>]

ValuationRowAccepted(cols) == Len(cols) >= 4 /\ ValidCode(CellText(cols, 0))

RECURSIVE ParseBasicRows(_)
ParseBasicRows(rows) ==
    IF rows = <<>> THEN <<>>
    ELSE (IF BasicRowAccepted(Head(rows)) THEN <<BasicRecord(Head(rows))>> ELSE <<>>)
         \o ParseBasicRows(Tail(rows))

RECURSIVE ParseValuationRows(_)
ParseValuationRows(rows) ==
    IF rows = <<>> THEN <<>>
    ELSE (IF ValuationRowAccepted(Head(rows)) THEN <<ValuationRecord(Head(rows))>> ELSE <<>>)
         \o ParseValuationRows(Tail(rows))

\* faulty variant: the failed request is not noticed and the body is parsed anyway
scrape_ignoring_failure(page) ==
    <<ParseBasicRows(SkipHeader(page.referencetable)),
      ParseValuationRows(SkipHeader(page.estimationtable))>>

\* the pair scrape_lof_fund_data returns for what the site serves:
\* page.up is FALSE when the request or the parsing raises (lines 109-111)
scrape_lof_fund_data(page) ==
    IF page.up
    THEN <<ParseBasicRows(SkipHeader(page.referencetable)),
           ParseValuationRows(SkipHeader(page.estimationtable))>>
    ELSE <<<<>>, <<>>>>

-----------------------------------------------------------------------------
(* Ranking, lines 252-312.                                                 *)

\* {fund['代码']: fund for fund in data}: the last record of a code wins
CodesOf(data) == {data[i].code : i \in 1..Len(data)}

DictOf(data) ==
    [c \in CodesOf(data) |->
        data[CHOOSE i \in 1..Len(data) :
                /\ data[i].code = c
                /\ \A j \in (i + 1)..Len(data) : data[j].code # c]]

\* sorted(set_of_codes): ascending by str comparison
RECURSIVE SortedCodes(_)
SortedCodes(S) ==
    IF S = {} THEN <<>>
    ELSE LET m == CHOOSE x \in S : \A y \in S \ {x} : StrLess(x, y)
         IN  <<m>> \o SortedCodes(S \ {m})

\* fund_valuation_dict.get(code, {}) as a valuation record
ValuationOf(valuation_dict, code) ==
    IF code \in DOMAIN valuation_dict THEN valuation_dict[code] ELSE <<>>

\* the fund_info dict built at lines 276-291
MakeFundInfo(basic_dict, valuation_dict, code) ==
    LET best == get_best_valuation_premium(ValuationOf(valuation_dict, code))
    IN  [name |-> IF code \in DOMAIN basic_dict THEN basic_dict[code].name ELSE <<>>,
         code |-> code,
         premium_rate |-> best[1],
         valuation_type |-> best[2],
         limit_info |-> <<>>]

\* the sort key of an entry, line 306
SortKey(infos, code) == parse_premium_rate(infos[code].premium_rate)

HasNaNKey(infos, list) == \E i \in 1..Len(list) : SortKey(infos, list[i]).nan

\* list.sort(key=..., reverse=True) on numbers: stable, descending.  Insert each
\* element after the ones already placed whose key is not smaller.
RECURSIVE InsertDescending(_, _, _)
InsertDescending(infos, placed, c) ==
    IF placed = <<>> THEN <<c>>
    ELSE IF FloatLT(SortKey(infos, Head(placed)), SortKey(infos, c))
    THEN <<c>> \o placed
    ELSE <<Head(placed)>> \o InsertDescending(infos, Tail(placed), c)

RECURSIVE StableDescending(_, _)
StableDescending(infos, list) ==
    IF list = <<>> THEN <<>>
    ELSE InsertDescending(infos,
                          StableDescending(infos, SubSeq(list, 1, Len(list) - 1)),
                          list[Len(list)])

Arrangements(list) ==
    {p \in [1..Len(list) -> Range(list)] : \A i, j \in 1..Len(list) : i # j => p[i] # p[j]}

\* The orders list.sort may leave.  With a NaN key every comparison against it
\* is false and the order depends on the interpreter's run detection and
\* merging; any arrangement of the same entries is then possible.
SortOutcomes(infos, list) ==
    IF HasNaNKey(infos, list) THEN Arrangements(list)
    ELSE {StableDescending(infos, list)}

\* faulty variant: the comparison with the threshold is strict
RECURSIVE FilterHighStrict(_, _, _)
FilterHighStrict(infos, list, threshold) ==
    IF list = <<>> THEN <<>>
    ELSE (IF FloatLT(Number(threshold), SortKey(infos, Head(list)))
          THEN <<Head(list)>> ELSE <<>>)
         \o FilterHighStrict(infos, Tail(list), threshold)

\* lines 309-312
RECURSIVE FilterHigh(_, _, _)
FilterHigh(infos, list, threshold) ==
    IF list = <<>> THEN <<>>
    ELSE (IF FloatGE(SortKey(infos, Head(list)), Number(threshold))
          THEN <<Head(list)>> ELSE <<>>)
         \o FilterHigh(infos, Tail(list), threshold)

-----------------------------------------------------------------------------
(* Limit Extractor, get_fund_limit_in_main lines 463-518 (the same code is *)
(* get_fund_limit lines 68-147).  Phrases the code searches for are one    *)
(* token each:                                                             *)
(*   "STATUS"     '交易状态'              "CAP"        '单日累计购买上限'  *)
(*   "LARGE"      '限大额'                "SUSPENDED"  '暂停申购'          *)
(*   "FL", "FR"   the full-width parentheses '（' and '）'                 *)
(* A parsed page is                                                        *)
(*   sections: the span.itemTit elements in document order, each with its  *)
(*             title text and the texts of the span.staticCell elements    *)
(*             under its parent;                                           *)
(*   spans:    the .string of every span that has one, in document order;  *)
(*   strings:  every text node, in document order.                         *)

FETCH_FAILED == <<"FETCH_FAILED">>      \* '获取失败'

UNRESTRICTED == <<"UNRESTRICTED">>      \* '无限制'

UNABLE_TO_RETRIEVE == <<"UNABLE">>      \* '无法获取限额信息'

LARGE_LIMITED == <<"LARGE">>            \* '限大额'

SUSPENDED == <<"SUSPENDED">>            \* '暂停申购'

Contains(text, token) == token \in Range(text)

NoMatch == [found |-> FALSE, value |-> <<>>]

Match(v) == [found |-> TRUE, value |-> v]

\* the end (exclusive) of the longest run of characters outside `stop` from i on
RECURSIVE RunEnd(_, _, _)
RunEnd(text, i, stop) ==
    IF i > Len(text) \/ text[i] \in stop THEN i ELSE RunEnd(text, i + 1, stop)

\* re.search(r'单日累计购买上限([^\)]+)', text), group 1
CapSearch(text) ==
    LET starts == {i \in 1..Len(text) :
                      text[i] = "CAP" /\ i < Len(text) /\ text[i + 1] # ")"}
    IN  IF starts = {} THEN NoMatch
        ELSE LET i == CHOOSE k \in starts : \A m \in starts : k <= m
             IN  Match(SubSeq(text, i + 1, RunEnd(text, i + 1, {")"}) - 1))

\* re.search(r'[（(]([^)）]*)[)）]', text), group 1
ParenSearch(text) ==
    LET closes == {")", "FR"}
        starts == {i \in 1..Len(text) :
                      text[i] \in {"(", "FL"} /\ RunEnd(text, i + 1, closes) <= Len(text)}
    IN  IF starts = {} THEN NoMatch
        ELSE LET i == CHOOSE k \in starts : \A m \in starts : k <= m
             IN  Match(SubSeq(text, i + 1, RunEnd(text, i + 1, closes) - 1))

\* lines 485-490 and 511-515
LargeAmount(text) ==
    IF ParenSearch(text).found THEN ParenSearch(text) ELSE Match(LARGE_LIMITED)

\* lines 476-492: the cells of one trading-status section
RECURSIVE ScanCells(_)
ScanCells(cells) ==
    IF cells = <<>> THEN NoMatch
    ELSE LET cell_text == Head(cells)
         IN  IF Contains(cell_text, "CAP") THEN
                 IF CapSearch(cell_text).found THEN CapSearch(cell_text)
                 ELSE ScanCells(Tail(cells))
             ELSE IF Contains(cell_text, "LARGE") THEN LargeAmount(cell_text)
             ELSE IF Contains(cell_text, "SUSPENDED") THEN Match(SUSPENDED)
             ELSE ScanCells(Tail(cells))

\* lines 467-492
RECURSIVE Strategy1(_)
Strategy1(sections) ==
    IF sections = <<>> THEN NoMatch
    ELSE IF Contains(Head(sections).title, "STATUS") /\ ScanCells(Head(sections).cells).found
    THEN ScanCells(Head(sections).cells)
    ELSE Strategy1(Tail(sections))

\* lines 495-500
RECURSIVE Strategy2(_)
Strategy2(spans) ==
    IF spans = <<>> THEN NoMatch
    ELSE IF Contains(Head(spans), "CAP") /\ CapSearch(Head(spans)).found
    THEN CapSearch(Head(spans))
    ELSE Strategy2(Tail(spans))

\* lines 503-515
RECURSIVE Strategy3(_)
Strategy3(strings) ==
    IF strings = <<>> THEN NoMatch
    ELSE LET text == Head(strings)
         IN  IF ~Contains(text, "LARGE") THEN Strategy3(Tail(strings))
             ELSE IF Contains(text, "CAP") THEN
                 IF CapSearch(text).found THEN CapSearch(text)
                 ELSE Strategy3(Tail(strings))
             ELSE LargeAmount(text)

ExtractLimit(page) ==
    IF Strategy1(page.sections).found THEN Strategy1(page.sections).value
    ELSE IF Strategy2(page.spans).found THEN Strategy2(page.spans).value
    ELSE IF Strategy3(page.strings).found THEN Strategy3(page.strings).value
    ELSE UNRESTRICTED

-----------------------------------------------------------------------------
(* Detail-page responses.  An attempt either raises (the GET,              *)
(* raise_for_status or the parsing: kind "error") or delivers a body with  *)
(* its length and parsed content.                                          *)

max_retries == 3

MinBodyLength == 1000

ErrorResponse == [kind |-> "error", length |-> 0, page |-> <<>>]

Body(n, page) == [kind |-> "body", length |-> n, page |-> page]

\* line 456 (and line 56 of fund_limit_fetcher.py): not text or len(text) < 1000
TooShort(resp) == resp.length = 0 \/ resp.length < MinBodyLength

\* how one GET ended, as the fetcher tells them apart
AttemptKind(resp) ==
    IF resp.kind = "error" THEN "error" ELSE IF TooShort(resp) THEN "short" ELSE "page"

\* 2 ** attempt
RECURSIVE Pow2(_)
Pow2(n) == IF n = 0 THEN 1 ELSE 2 * Pow2(n - 1)

\* faulty variant: 2 * attempt instead of 2 ** attempt
BackoffLinear(n) == 2 * n

\* the delay slept after a failed attempt, lines 458-459 and 522-523
Backoff(n) == Pow2(n)

\* faulty variant: the last attempt is retried as well
RetryAfterAlways(n) == n < max_retries

\* whether another attempt follows a failed one, lines 458 and 522
RetryAfter(n) == n < max_retries - 1

\* get_fund_limit of fund_limit_fetcher.py: one GET, no retry
get_fund_limit(resp) ==
    IF resp.kind = "error" \/ TooShort(resp) THEN FETCH_FAILED ELSE ExtractLimit(resp.page)

-----------------------------------------------------------------------------
(* Alert rendering, lines 350-388 (the timestamp line is left out).        *)

MaxShown == 10

\* lines 359-364: "NO_DRAG" is '不拖', "DRAG" is '可拖'
DragInfo(code) ==
    IF StartsWith(code, SH) THEN "NO_DRAG" ELSE IF StartsWith(code, SZ) THEN "DRAG" ELSE ""

\* lines 368-377: a blank limit_info is shown as '无限制'
ShownLimit(limit_info) == IF Truthy(limit_info) THEN limit_info ELSE UNRESTRICTED

RenderEntry(infos, code, i) ==
    [index |-> i, name |-> infos[code].name, code |-> code,
     premium_rate |-> infos[code].premium_rate,
     limit |-> ShownLimit(infos[code].limit_info), drag |-> DragInfo(code)]

Min(a, b) == IF a <= b THEN a ELSE b

\* faulty variant: the remainder line is written from ten funds on
RenderMessageFromTen(infos, high, threshold) ==
    [threshold |-> threshold,
     count |-> Len(high),
     entries |-> [i \in 1..Min(Len(high), MaxShown) |-> RenderEntry(infos, high[i], i)],
     has_more |-> Len(high) >= MaxShown,
     more |-> IF Len(high) >= MaxShown THEN Len(high) - MaxShown ELSE 0]

\* the alert as its parts: the threshold and count of the header (lines 352-353),
\* the numbered entries (lines 356-378), and the remainder line (lines 380-381)
RenderMessage(infos, high, threshold) ==
    [threshold |-> threshold,
     count |-> Len(high),
     entries |-> [i \in 1..Min(Len(high), MaxShown) |-> RenderEntry(infos, high[i], i)],
     has_more |-> Len(high) > MaxShown,
     more |-> IF Len(high) > MaxShown THEN Len(high) - MaxShown ELSE 0]

NoMessage == [threshold |-> 0, count |-> 0, entries |-> <<>>, has_more |-> FALSE, more |-> 0]

-----------------------------------------------------------------------------
(* The inputs of a run.                                                    *)

SH501300 == <<"S", "H", "5", "0", "1", "3", "0", "0">>

SZ160416 == <<"S", "Z", "1", "6", "0", "4", "1", "6">>

SZ161128 == <<"S", "Z", "1", "6", "1", "1", "2", "8">>

\* the literal "161128" of line 329
Pure161128 == <<"1", "6", "1", "1", "2", "8">>

P850 == <<"8", ".", "5", "0", "%">>

P700 == <<"7", ".", "0", "0", "%">>

P550 == <<"5", ".", "5", "0", "%">>

P500 == <<"5", ".", "0", "0", "%">>

P499 == <<"4", ".", "9", "9", "%">>

PBlank == <<>>

PDash == <<"-", "-">>

PNaN == <<"N", "A", "N">>

Est == <<"1", ".", "0", "2">>

Day == <<"1", "1", "-", "0", "3">>

Name(code) == <<"N">> \o SubSeq(code, 3, Len(code))

HeaderRow == <<>>

BasicRow(code) == <<code, Est, P500, Day, Day, Name(code)>>

\* valuation rows of 4, 6 and 8 cells
ValRow4(code, official) == <<code, Est, Day, official>>

ValRow6(code, official, reference) == <<code, Est, Day, official, Est, reference>>

ValRow8(code, official, reference, realtime) ==
    <<code, Est, Day, official, Est, reference, Est, realtime>>

Site(basic_rows, valuation_rows) ==
    [up |-> TRUE, referencetable |-> <<HeaderRow>> \o basic_rows,
     estimationtable |-> <<HeaderRow>> \o valuation_rows]

SiteDown == [up |-> FALSE, referencetable |-> <<>>, estimationtable |-> <<>>]

\* what the aggregator serves in the runs of Spec
\* the request fails although the server sent tables (a non-2xx status, a timeout
\* while reading)
SiteError ==
    [up |-> FALSE,
     referencetable |-> <<HeaderRow, BasicRow(SH501300)>>,
     estimationtable |-> <<HeaderRow, ValRow4(SH501300, P850)>>]

RunWebs ==
    { SiteDown, SiteError,
      [up |-> TRUE, referencetable |-> <<>>, estimationtable |-> <<>>],
      Site(<<BasicRow(SH501300), BasicRow(SZ160416), BasicRow(SZ161128)>>,
           <<ValRow6(SH501300, P700, P850), ValRow4(SZ160416, P500),
             ValRow8(SZ161128, P700, PBlank, P550)>>),
      Site(<<BasicRow(SH501300)>>,
           <<ValRow6(SH501300, P700, P850), ValRow4(SZ160416, P499)>>),
      Site(<<BasicRow(SZ160416)>>, <<>>) }

Thresholds == {0, 500}

Limit10W == <<"1", "0", "W">>

\* fund_limits.ini: none, a limit for SH501300, an empty limit for it, one for SZ161128
LimitConfigs ==
    { <<>>,
      [c \in {SH501300} |-> Limit10W],
      [c \in {SH501300} |-> <<>>],
      [c \in {SZ161128} |-> Limit10W] }

StatusSection(cell) == [title |-> <<"STATUS">>, cells |-> <<cell>>]

CapCell == <<"LARGE", "(", "CAP", "1", "0", "Y", ")">>

EmptyParenCell == <<"LARGE", "(", ")">>

BlankPage == [sections |-> <<>>, spans |-> <<>>, strings |-> <<>>]

DetailPages ==
    { BlankPage,
      [sections |-> <<StatusSection(CapCell)>>, spans |-> <<CapCell>>, strings |-> <<CapCell>>],
      [sections |-> <<StatusSection(EmptyParenCell)>>, spans |-> <<EmptyParenCell>>,
       strings |-> <<EmptyParenCell>>] }

\* what the fund site may answer to one GET
Responses ==
    {ErrorResponse} \cup {Body(n, BlankPage) : n \in {0, 400, 999}}
                    \cup {Body(1000, p) : p \in DetailPages}

\* what the webhook may answer: 200 with errcode 0, 200 with another errcode,
\* another status, or an exception raised by the request or by response.json()
PostOutcomes == {"ok", "errcode", "status", "exception"}

-----------------------------------------------------------------------------
(* One run of generate_and_save_fund_summary.                              *)

inputs == <<web, FUND_LIMIT_AVAILABLE, fund_limits_config, premium_threshold>>

scraped == <<fund_basic_data, fund_valuation_data>>

ranking == <<sorted_codes, all_funds_info, high_premium_funds>>

fetcher == <<attempt, call_log, sleeps, limit_result>>

history == <<visited, outcome>>

notifier == <<posts, post_outcome, message>>

pure == <<arg, ret>>

NotLookedUp == [kind |-> "none", value |-> <<>>]

Returned(v) == [kind |-> "returned", value |-> v]

Raised == [kind |-> "raised", value |-> <<>>]

\* the locals of a run before its first statement
RunStart ==
    /\ fund_basic_data = <<>>
    /\ fund_valuation_data = <<>>
    /\ sorted_codes = <<>>
    /\ fund_info = <<>>
    /\ all_funds_info = <<>>
    /\ high_premium_funds = <<>>
    /\ idx = 1
    /\ attempt = 0
    /\ call_log = <<>>
    /\ sleeps = <<>>
    /\ limit_result = <<>>
    /\ visited = <<>>
    /\ outcome = <<>>
    /\ gets = <<>>
    /\ posts = 0
    /\ post_outcome = "none"
    /\ message = NoMessage

Init ==
    /\ pc = "start"
    /\ web \in RunWebs
    /\ FUND_LIMIT_AVAILABLE \in BOOLEAN
    /\ fund_limits_config \in LimitConfigs
    /\ premium_threshold \in Thresholds
    /\ RunStart
    /\ arg = <<>>
    /\ ret = <<>>

\* line 246: scrape_lof_fund_data()
Scrape ==
    /\ pc = "start"
    /\ fund_basic_data' = scrape_lof_fund_data(web)[1]
    /\ fund_valuation_data' = scrape_lof_fund_data(web)[2]
    /\ pc' = "scraped"
    /\ UNCHANGED <<inputs, ranking, fund_info, idx, fetcher, history, gets, notifier, pure>>

\* lines 248-250
NoData ==
    /\ pc = "scraped"
    /\ fund_basic_data = <<>> /\ fund_valuation_data = <<>>
    /\ pc' = "done"
    /\ UNCHANGED <<inputs, scraped, ranking, fund_info, idx, fetcher, history, gets,
                   notifier, pure>>

\* lines 252-292: one fund_info per code of either table, in code order
Collect ==
    /\ pc = "scraped"
    /\ ~(fund_basic_data = <<>> /\ fund_valuation_data = <<>>)
    /\ LET fund_basic_dict == DictOf(fund_basic_data)
           fund_valuation_dict == DictOf(fund_valuation_data)
           all_codes == DOMAIN fund_basic_dict \cup DOMAIN fund_valuation_dict
       IN  /\ sorted_codes' = SortedCodes(all_codes)
           /\ fund_info' = [c \in all_codes |->
                               MakeFundInfo(fund_basic_dict, fund_valuation_dict, c)]
           /\ all_funds_info' = SortedCodes(all_codes)
           /\ outcome' = [c \in all_codes |-> NotLookedUp]
    /\ pc' = "collected"
    /\ UNCHANGED <<inputs, scraped, high_premium_funds, idx, fetcher, visited, gets,
                   notifier, pure>>

\* line 306
Rank ==
    /\ pc = "collected"
    /\ all_funds_info' \in SortOutcomes(fund_info, all_funds_info)
    /\ pc' = "ranked"
    /\ UNCHANGED <<inputs, scraped, sorted_codes, high_premium_funds, fund_info, idx,
                   fetcher, history, gets, notifier, pure>>

\* faulty variant: every entry is kept, so every entry is looked up
FilterKeepsAll ==
    /\ pc = "ranked"
    /\ high_premium_funds' = all_funds_info
    /\ idx' = 1
    /\ pc' = "lookup"
    /\ UNCHANGED <<inputs, scraped, sorted_codes, all_funds_info, fund_info, fetcher,
                   history, gets, notifier, pure>>

\* lines 309-312
Filter ==
    /\ pc = "ranked"
    /\ high_premium_funds' = FilterHigh(fund_info, all_funds_info, premium_threshold)
    /\ idx' = 1
    /\ pc' = "lookup"
    /\ UNCHANGED <<inputs, scraped, sorted_codes, all_funds_info, fund_info, fetcher,
                   history, gets, notifier, pure>>

\* line 315 and line 317: the lookup loop has an entry to process
InLoop ==
    /\ pc = "lookup"
    /\ FUND_LIMIT_AVAILABLE /\ high_premium_funds # <<>>
    /\ idx <= Len(high_premium_funds)

fund_code == high_premium_funds[idx]

\* lines 333-335 and 423-425: fund_code[2:] when the prefix is SH or SZ
PureCode(code) ==
    IF StartsWith(code, SH) \/ StartsWith(code, SZ) THEN DropPrefix(code, 2) ELSE code

\* lines 321-323: the predefined limit is taken
UsePredefined ==
    /\ InLoop
    /\ fund_code \in DOMAIN fund_limits_config
    /\ limit_result' = fund_limits_config[fund_code]
    /\ pc' = "fetched"
    /\ UNCHANGED <<inputs, scraped, ranking, fund_info, idx, attempt, call_log, sleeps,
                   history, gets, notifier, pure>>

\* lines 326-330: the special case calls fund_limit_fetcher.get_fund_limit("161128")
SpecialLookup ==
    /\ InLoop
    /\ fund_code \notin DOMAIN fund_limits_config
    /\ fund_code = SZ161128
    /\ \E resp \in Responses :
          /\ gets' = Append(gets, Pure161128)
          /\ limit_result' = get_fund_limit(resp)
    /\ pc' = "fetched"
    /\ UNCHANGED <<inputs, scraped, ranking, fund_info, idx, attempt, call_log, sleeps,
                   history, notifier, pure>>

\* lines 332-339: the politeness delay, then get_fund_limit_in_main is entered
StartFetch ==
    /\ InLoop
    /\ fund_code \notin DOMAIN fund_limits_config
    /\ fund_code # SZ161128
    /\ attempt' = 0
    /\ call_log' = <<>>
    /\ sleeps' = <<>>
    /\ pc' = "fetch"
    /\ UNCHANGED <<inputs, scraped, ranking, fund_info, idx, limit_result, history, gets,
                   notifier, pure>>

\* what a failed attempt does next: lines 458-461 for a short body, lines 522-525
\* for an exception
FailedAttempt ==
    IF RetryAfter(attempt)
    THEN /\ sleeps' = Append(sleeps, Backoff(attempt))
         /\ attempt' = attempt + 1
         /\ UNCHANGED <<pc, limit_result>>
    ELSE /\ limit_result' = FETCH_FAILED
         /\ pc' = "fetched"
         /\ UNCHANGED <<sleeps, attempt>>

\* one iteration of the loop of get_fund_limit_in_main, lines 420-525
FetchAttempt ==
    /\ pc = "fetch"
    /\ attempt < max_retries
    /\ \E resp \in Responses :
          /\ gets' = Append(gets, PureCode(PureCode(fund_code)))
          /\ call_log' = Append(call_log, AttemptKind(resp))
          /\ IF AttemptKind(resp) = "page"
             THEN /\ limit_result' = ExtractLimit(resp.page)
                  /\ pc' = "fetched"
                  /\ UNCHANGED <<sleeps, attempt>>
             ELSE FailedAttempt
    /\ UNCHANGED <<inputs, scraped, ranking, fund_info, idx, history, notifier, pure>>

\* line 342: limit_info or '无法获取限额信息'
OrUnable(limit_info) == IF Truthy(limit_info) THEN limit_info ELSE UNABLE_TO_RETRIEVE

\* the loop moves to the next fund; the fetcher's locals are gone
NextFund ==
    /\ idx' = idx + 1
    /\ visited' = Append(visited, fund_code)
    /\ attempt' = 0
    /\ call_log' = <<>>
    /\ sleeps' = <<>>
    /\ limit_result' = <<>>
    /\ pc' = "lookup"

\* lines 323/330/340-342: the lookup returned and its result is stored
StoreLimit ==
    /\ pc = "fetched"
    /\ fund_info' = [fund_info EXCEPT ![fund_code].limit_info = OrUnable(limit_result)]
    /\ outcome' = [outcome EXCEPT ![fund_code] = Returned(limit_result)]
    /\ NextFund
    /\ UNCHANGED <<inputs, scraped, ranking, gets, notifier, pure>>

\* faulty variant: the exception is not caught per fund and ends the run at line 395
LookupErrorEscapes ==
    /\ pc = "fetched"
    /\ pc' = "done"
    /\ UNCHANGED <<inputs, scraped, ranking, fund_info, idx, fetcher, history, gets,
                   notifier, pure>>

\* lines 343-345: a statement of the try block (lines 318-342) raised after the
\* lookup, such as the logging of the result
CatchLookupError ==
    /\ pc = "fetched"
    /\ fund_info' = [fund_info EXCEPT ![fund_code].limit_info = UNABLE_TO_RETRIEVE]
    /\ outcome' = [outcome EXCEPT ![fund_code] = Raised]
    /\ NextFund
    /\ UNCHANGED <<inputs, scraped, ranking, gets, notifier, pure>>

\* line 315 false, or the for loop of line 317 is exhausted
LoopEnd ==
    /\ pc = "lookup"
    /\ ~InLoop
    /\ pc' = "notify"
    /\ UNCHANGED <<inputs, scraped, ranking, fund_info, idx, fetcher, history, gets,
                   notifier, pure>>

\* faulty variant: a failed POST is sent once more
NotifyRetrying ==
    /\ pc = "notify"
    /\ high_premium_funds # <<>>
    /\ message' = RenderMessage(fund_info, high_premium_funds, premium_threshold)
    /\ \E r \in PostOutcomes :
          /\ post_outcome' = r
          /\ posts' = IF r = "ok" THEN posts + 1 ELSE posts + 2
    /\ pc' = "resort"
    /\ UNCHANGED <<inputs, scraped, ranking, fund_info, idx, fetcher, history, gets, pure>>

\* lines 348-390 with send_wechat_notification, lines 140-179: one POST, whose
\* failure is logged
Notify ==
    /\ pc = "notify"
    /\ high_premium_funds # <<>>
    /\ message' = RenderMessage(fund_info, high_premium_funds, premium_threshold)
    /\ \E r \in PostOutcomes : post_outcome' = r
    /\ posts' = posts + 1
    /\ pc' = "resort"
    /\ UNCHANGED <<inputs, scraped, ranking, fund_info, idx, fetcher, history, gets, pure>>

\* line 348 false
NoNotify ==
    /\ pc = "notify"
    /\ high_premium_funds = <<>>
    /\ pc' = "resort"
    /\ UNCHANGED <<inputs, scraped, ranking, fund_info, idx, fetcher, history, gets,
                   notifier, pure>>

\* line 393, then the function returns
Resort ==
    /\ pc = "resort"
    /\ all_funds_info' \in SortOutcomes(fund_info, all_funds_info)
    /\ pc' = "done"
    /\ UNCHANGED <<inputs, scraped, sorted_codes, high_premium_funds, fund_info, idx,
                   fetcher, history, gets, notifier, pure>>

Next ==
    \/ Scrape \/ NoData \/ Collect \/ Rank \/ Filter
    \/ UsePredefined \/ SpecialLookup \/ StartFetch \/ FetchAttempt
    \/ StoreLimit \/ CatchLookupError \/ LoopEnd
    \/ Notify \/ NoNotify \/ Resort

Spec == Init /\ [][Next]_vars

-----------------------------------------------------------------------------
(* The ranking steps alone, over every site whose tables hold up to        *)
(* MaxBasicRows and MaxValRows data rows.                                  *)

MaxValRows == 2

MaxBasicRows == 1

P50 == <<"5", ".", "0">>

PPadded == <<" ", "5", ".", "0", "0", "%", " ">>

RankCodes == {SH501300, SZ160416, SZ161128}

RankPremiums == {PBlank, PNaN, P499, P500, P50}

RankValRows ==
    {ValRow4(c, p) : c \in RankCodes, p \in RankPremiums}
        \cup {ValRow4(SZ160416, PPadded), ValRow4(SZ161128, PDash),
              ValRow4(SZ161128, P850), ValRow6(SH501300, P850, P499)}

RankBasicRows == {BasicRow(SH501300)}

SeqsUpTo(S, n) == UNION {[1..k -> S] : k \in 0..n}

RankWebs ==
    {Site(b, v) : b \in SeqsUpTo(RankBasicRows, MaxBasicRows),
                  v \in SeqsUpTo(RankValRows, MaxValRows)}

InitRank ==
    /\ pc = "start"
    /\ web \in RankWebs
    /\ FUND_LIMIT_AVAILABLE = TRUE
    /\ fund_limits_config = <<>>
    /\ premium_threshold \in Thresholds
    /\ RunStart
    /\ arg = <<>>
    /\ ret = <<>>

NextRank == Scrape \/ NoData \/ Collect \/ Rank \/ Filter

SpecRank == InitRank /\ [][NextRank]_vars

-----------------------------------------------------------------------------
(* get_best_valuation_premium alone, over valuation records.               *)

ResolveTexts == {PBlank, <<" ">>, <<" ", "\t">>, P500, P850, PDash}

\* the dict {} and the dicts holding the three premium keys
ValuationRecords ==
    {<<>>} \cup
    {[premium |-> o, reference_premium |-> r, realtime_premium |-> t] :
        o \in ResolveTexts, r \in ResolveTexts, t \in ResolveTexts}

InitResolve ==
    /\ pc = "call"
    /\ arg \in ValuationRecords
    /\ ret = <<>>
    /\ web = SiteDown
    /\ FUND_LIMIT_AVAILABLE = TRUE
    /\ fund_limits_config = <<>>
    /\ premium_threshold = 500
    /\ RunStart

Resolve ==
    /\ pc = "call"
    /\ ret' = get_best_valuation_premium(arg)
    /\ pc' = "returned"
    /\ UNCHANGED <<inputs, scraped, ranking, fund_info, idx, fetcher, history, gets,
                   notifier, arg>>

NextResolve == Resolve

SpecResolve == InitResolve /\ [][NextResolve]_vars

-----------------------------------------------------------------------------
(* Runs over sites that list up to MaxFunds funds, each with a predefined  *)
(* limit in fund_limits.ini, so that no detail page is requested: the run  *)
(* scrapes, ranks, filters, takes the predefined limits (or skips the      *)
(* lookups when FUND_LIMIT_AVAILABLE is False), renders and posts.  No     *)
(* statement of the lookup loop raises in these runs.                      *)

MaxFunds == 12

DigitChar(n) == <<"0", "1", "2", "3", "4", "5", "6", "7", "8", "9">>[n + 1]

\* the i-th fund of the site: SH5010ii for odd i, SZ1600ii for even i
RenderCode(i) ==
    (IF i % 2 = 1 THEN <<"S", "H", "5", "0", "1", "0">>
                  ELSE <<"S", "Z", "1", "6", "0", "0">>)
        \o <<DigitChar(i \div 10), DigitChar(i % 10)>>

RenderPremiumCycle == <<P500, P850, P499, P700, P550, P500>>

\* the official premium the site shows for its i-th fund
RenderPremium(i, shift) == RenderPremiumCycle[((i + shift) % 6) + 1]

RenderSite(n, shift) ==
    Site([i \in 1..n |-> BasicRow(RenderCode(i))],
         [i \in 1..n |-> ValRow4(RenderCode(i), RenderPremium(i, shift))])

RenderWebs == {RenderSite(n, shift) : n \in 0..MaxFunds, shift \in {0, 1}}

\* fund_limits.ini with a section for every fund the sites list
RenderLimits == [c \in {RenderCode(i) : i \in 1..MaxFunds} |-> Limit10W]

InitRender ==
    /\ pc = "start"
    /\ web \in RenderWebs
    /\ FUND_LIMIT_AVAILABLE \in BOOLEAN
    /\ fund_limits_config = RenderLimits
    /\ premium_threshold \in Thresholds
    /\ RunStart
    /\ arg = <<>>
    /\ ret = <<>>

NextRender ==
    \/ Scrape \/ NoData \/ Collect \/ Rank \/ Filter
    \/ UsePredefined \/ StoreLimit \/ LoopEnd
    \/ Notify \/ NoNotify \/ Resort

SpecRender == InitRender /\ [][NextRender]_vars

-----------------------------------------------------------------------------
(* scrape_lof_fund_data alone, over pages whose two tables hold the same   *)
(* up to MaxScrapeRows rows after the first: rows of 0 to 8 cells, whose   *)
(* first cell is a code, a malformed code or padded text.                  *)

MaxScrapeRows == 2

\* a row of n cells; the cells after the first tell the row and the column
CellsRow(first, n) ==
    IF n = 0 THEN <<>>
    ELSE <<first>> \o [i \in 1..(n - 1) |-> <<DigitChar(n), ".", DigitChar(i)>>]

\* 'SZ1604': six characters
SZ1604 == <<"S", "Z", "1", "6", "0", "4">>

\* 'SH501': five characters
SH501 == <<"S", "H", "5", "0", "1">>

\* ' SH501300\n': the cell's text node carries the markup's indentation
PaddedCode == <<" ">> \o SH501300 \o <<"\n">>

\* 'SH50\n300': a line break inside the text node
BrokenCode == <<"S", "H", "5", "0", "\n", "3", "0", "0">>

\* first cells that are not fund codes: no prefix, lower case, 'HS', a space
\* before a short code, nothing
OddFirstCells ==
    { SZ1604, SH501, PaddedCode, BrokenCode,
      <<"1", "6", "0", "4", "1", "6">>,
      <<"s", "h", "5", "0", "1", "3", "0", "0">>,
      <<"H", "S", "5", "0", "1", "3", "0", "0">>,
      <<" ", "S", "Z", "1", "6", "0", " ">>,
      <<>> }

ScrapeRows ==
    {CellsRow(SH501300, n) : n \in {0, 1, 3, 4, 5, 6, 7, 8}}
        \cup {CellsRow(SZ160416, n) : n \in {4, 6, 8}}
        \cup {CellsRow(c, n) : c \in OddFirstCells, n \in {4, 6}}

\* the first tr of a table: th cells only, or a row that looks like a data row
FirstRows == {HeaderRow, BasicRow(SH501300)}

ScrapeWebs ==
    {[up |-> TRUE, referencetable |-> <<h>> \o rows, estimationtable |-> <<h>> \o rows] :
        h \in FirstRows, rows \in SeqsUpTo(ScrapeRows, MaxScrapeRows)}
      \cup {[up |-> TRUE, referencetable |-> <<>>, estimationtable |-> <<>>], SiteError}

InitScrape ==
    /\ pc = "start"
    /\ web \in ScrapeWebs
    /\ FUND_LIMIT_AVAILABLE = TRUE
    /\ fund_limits_config = <<>>
    /\ premium_threshold = 500
    /\ RunStart
    /\ arg = <<>>
    /\ ret = <<>>

NextScrape == Scrape

SpecScrape == InitScrape /\ [][NextScrape]_vars

-----------------------------------------------------------------------------
(* The Limit Extractor alone, over parsed detail pages.  A page is built   *)
(* from its elements in document order: an optional section of another     *)
(* title, an optional trading-status section of up to MaxCells cells, and  *)
(* up to two elements outside the sections.  A cell is a span.staticCell   *)
(* holding one text node, or text around an inner span.                    *)

MaxCells == 2

\* <span class="staticCell">text</span>
PlainCell(text) == [text |-> text, spans |-> <<text>>, strings |-> <<text>>]

\* <span class="staticCell">pre<span>inner</span>post</span>: get_text() joins
\* the three text nodes, and only the inner span has a .string
NestedCell(pre, inner, post) ==
    [text |-> pre \o inner \o post, spans |-> <<inner>>, strings |-> <<pre, inner, post>>]

\* '限大额（单日累计购买上限10Y）' with full-width parentheses
WideCapCell == <<"LARGE", "FL", "CAP", "1", "0", "Y", "FR">>

\* '限大额(5W)' and '限大额（5W）'
ParenCell == <<"LARGE", "(", "5", "W", ")">>

WideParenCell == <<"LARGE", "FL", "5", "W", "FR">>

\* '限大额(单日累计购买上限)': nothing follows the cap phrase
BareCapCell == <<"LARGE", "(", "CAP", ")">>

\* '单日累计购买上限20Y'
CapText == <<"CAP", "2", "0", "Y">>

ExtractCells ==
    { PlainCell(CapCell), PlainCell(WideCapCell),
      NestedCell(<<"LARGE", "(">>, <<"CAP", "1", "0", "Y">>, <<")">>),
      PlainCell(ParenCell), PlainCell(WideParenCell), PlainCell(EmptyParenCell),
      PlainCell(LARGE_LIMITED), PlainCell(SUSPENDED),
      PlainCell(CapText), PlainCell(<<"CAP">>), PlainCell(<<"OPEN">>) }

\* span.itemTit and the span.staticCell elements under its parent
Section(title, cells) == [title |-> title, cells |-> cells]

\* elements outside the sections: a span holding one text node, or a text node
\* of some other element
LooseSpan(text) == [kind |-> "span", text |-> text]

LooseText(text) == [kind |-> "text", text |-> text]

LooseElements ==
    { LooseSpan(CapText), LooseSpan(<<"CAP">>), LooseText(ParenCell),
      LooseText(LARGE_LIMITED), LooseText(BareCapCell) }

IsSpan(e) == e.kind = "span"

TextsOf(elements) == [i \in 1..Len(elements) |-> elements[i].text]

RECURSIVE Flatten(_)
Flatten(lists) == IF lists = <<>> THEN <<>> ELSE Head(lists) \o Flatten(Tail(lists))

SectionSpans(sec) == <<sec.title>> \o Flatten([j \in 1..Len(sec.cells) |-> sec.cells[j].spans])

SectionStrings(sec) ==
    <<sec.title>> \o Flatten([j \in 1..Len(sec.cells) |-> sec.cells[j].strings])

\* what BeautifulSoup finds in the document: soup.find_all('span', class_='itemTit')
\* with the cells of each, the spans that have a .string, and the text nodes
ParsedPage(secs, loose) ==
    [sections |-> [i \in 1..Len(secs) |->
                      [title |-> secs[i].title,
                       cells |-> [j \in 1..Len(secs[i].cells) |-> secs[i].cells[j].text]]],
     spans |-> Flatten([i \in 1..Len(secs) |-> SectionSpans(secs[i])])
                  \o TextsOf(SelectSeq(loose, IsSpan)),
     strings |-> Flatten([i \in 1..Len(secs) |-> SectionStrings(secs[i])])
                  \o TextsOf(loose)]

\* the section before the trading status, when the page has one: '费率' ("FEE")
OtherSections ==
    { <<>>,
      <<Section(<<"FEE">>, <<PlainCell(SUSPENDED)>>)>>,
      <<Section(<<"FEE">>, <<PlainCell(ParenCell)>>)>> }

\* the trading-status section, when the page has one: its title is '交易状态：'
StatusSections ==
    {<<>>} \cup {<<Section(<<"STATUS", ":">>, cells)>> : cells \in SeqsUpTo(ExtractCells, MaxCells)}

LooseLists == {<<>>} \cup [1..1 -> LooseElements] \cup [1..2 -> LooseElements]

ExtractPages ==
    {ParsedPage(other \o status, loose) :
        other \in OtherSections, status \in StatusSections, loose \in LooseLists}

InitExtract ==
    /\ pc = "call"
    /\ arg \in ExtractPages
    /\ ret = <<>>
    /\ web = SiteDown
    /\ FUND_LIMIT_AVAILABLE = TRUE
    /\ fund_limits_config = <<>>
    /\ premium_threshold = 500
    /\ RunStart

\* lines 463-518 on one parsed page
Extract ==
    /\ pc = "call"
    /\ ret' = ExtractLimit(arg)
    /\ pc' = "returned"
    /\ UNCHANGED <<inputs, scraped, ranking, fund_info, idx, fetcher, history, gets,
                   notifier, arg>>

NextExtract == Extract

SpecExtract == InitExtract /\ [][NextExtract]_vars

-----------------------------------------------------------------------------
(* Properties.                                                             *)

NonBlankAt(d, key) == key \in DOMAIN d /\ \E i \in 1..Len(d[key]) : d[key][i] \notin Whitespace

\* C1: the resolver returns the reference premium with source reference whenever
\* it is present and non-blank, whatever the other two are; otherwise the
\* real-time premium if non-blank; otherwise the official one if non-blank;
\* otherwise ('', none); it returns for every record, the empty one included.
C1_ResolvePriority ==
    pc = "returned" =>
        IF NonBlankAt(arg, "reference_premium")
        THEN ret = <<arg["reference_premium"], "reference">>
        ELSE IF NonBlankAt(arg, "realtime_premium")
        THEN ret = <<arg["realtime_premium"], "realtime">>
        ELSE IF NonBlankAt(arg, "premium")
        THEN ret = <<arg["premium"], "official">>
        ELSE ret = <<<<>>, "">>

\* C1 witness: a reference premium smaller than the real-time and official ones wins.
C1_Witness ==
    /\ pc = "returned"
    /\ DOMAIN arg # {}
    /\ arg["reference_premium"] = P500
    /\ arg["realtime_premium"] = P850
    /\ arg["premium"] = P850
    /\ ret = <<P500, "reference">>

RankKey(c) == parse_premium_rate(fund_info[c].premium_rate)

Descending ==
    \A i \in 1..(Len(all_funds_info) - 1) :
        FloatGE(RankKey(all_funds_info[i]), RankKey(all_funds_info[i + 1]))

TiesInCodeOrder ==
    \A i, j \in 1..Len(all_funds_info) :
        (i < j /\ RankKey(all_funds_info[i]) = RankKey(all_funds_info[j]))
            => StrLess(all_funds_info[i], all_funds_info[j])

PermutationOfCodes ==
    /\ Len(all_funds_info) = Len(sorted_codes)
    /\ Range(all_funds_info) = Range(sorted_codes)
    /\ \A i, j \in 1..Len(sorted_codes) : i < j => StrLess(sorted_codes[i], sorted_codes[j])

\* C2: after the ranking sort every adjacent pair is in descending order of parsed
\* premium, entries of equal parsed premium keep ascending code order, and the
\* list is a permutation of the one-entry-per-code list.
C2_RankedDescendingStable ==
    pc \in {"ranked", "lookup"} => Descending /\ TiesInCodeOrder /\ PermutationOfCodes

\* C2, what does hold: the same, for the runs in which no premium text parses to NaN.
C2_RankedWithoutNaN ==
    (pc \in {"ranked", "lookup"} /\ ~HasNaNKey(fund_info, all_funds_info))
        => Descending /\ TiesInCodeOrder /\ PermutationOfCodes

\* the value the texts of the model stand for, in hundredths; PNaN has none
ExpectedValue(text) ==
    CASE text = P850 -> 850 [] text = P700 -> 700 [] text = P550 -> 550
      [] text \in {P500, P50} -> 500
      [] text = P499 -> 499
      [] text \in {PBlank, PDash} -> 0

Crosses(text) == text # PNaN /\ ExpectedValue(text) >= premium_threshold

Position(list, c) == CHOOSE k \in 1..Len(list) : list[k] = c

ThreeShort == <<"short", "short", "short">>

\* C4: when all 3 attempts of a fetch return a body under 1000 characters the
\* fetcher yields the failure sentinel, no body is parsed, and the pipeline
\* records the fund's limit-info as the 'unable to retrieve limit info' marker.
C4_ShortBodiesRecordUnable ==
    [][(pc = "fetched" /\ call_log = ThreeShort)
          => /\ limit_result = FETCH_FAILED
             /\ fund_info'[fund_code].limit_info = UNABLE_TO_RETRIEVE]_vars

Failed(log) == {i \in 1..Len(log) : log[i] # "page"}

\* C5: a fetcher call issues at most 3 GETs; a short body and an exception are
\* followed alike by the next attempt while fewer than 3 were made; nothing is
\* requested after an attempt that returned a page; when all 3 fail, in any
\* mix, the call returns the failure sentinel.
C5_FetchRetry ==
    /\ Len(call_log) <= 3
    /\ \A i \in 1..(Len(call_log) - 1) : call_log[i] # "page"
    /\ pc = "fetch" => /\ Len(call_log) < 3
                       /\ attempt = Len(call_log)
                       /\ Failed(call_log) = 1..Len(call_log)
    /\ (pc = "fetched" /\ call_log # <<>> /\ Failed(call_log) = 1..Len(call_log))
          => Len(call_log) = 3 /\ limit_result = FETCH_FAILED
    /\ (pc = "fetched" /\ call_log # <<>> /\ limit_result # FETCH_FAILED)
          => call_log[Len(call_log)] = "page"

\* C5 witness: a short body, then two exceptions, and the sentinel is returned.
C5_Witness ==
    /\ pc = "fetched"
    /\ call_log = <<"short", "error", "error">>
    /\ limit_result = FETCH_FAILED

\* C6 as stated: the delays of a call are 0, 2 and 4 seconds.
C6_BackoffZeroTwoFour ==
    \A i \in 1..Len(sleeps) : i <= 3 /\ sleeps[i] = <<0, 2, 4>>[i]

\* C6 amended: the delay after failed attempt k (k = 0, 1) is 2^k seconds, so a
\* call sleeps 1 s after the first failure and 2 s after the second, and not at
\* all after the third, whether the failure was a short body or an exception.
C6_Backoff ==
    pc \in {"fetch", "fetched"} =>
        LET n == Min(Cardinality(Failed(call_log)), 2)
        IN  sleeps = SubSeq(<<1, 2>>, 1, n)

\* C6 witness: a short body and an exception, in either order, slept 1 s then 2 s.
C6_Witness ==
    /\ Len(call_log) >= 2
    /\ {call_log[1], call_log[2]} = {"short", "error"}
    /\ sleeps = <<1, 2>>

AfterLookups == pc \in {"notify", "resort", "done"}

\* C7: every threshold-crossing entry whose code has a predefined limit ends the
\* lookup step with that limit as its limit-info, verbatim.
C7_OverrideVerbatim ==
    AfterLookups =>
        \A i \in 1..Len(high_premium_funds) :
            high_premium_funds[i] \in DOMAIN fund_limits_config
                => fund_info[high_premium_funds[i]].limit_info
                       = fund_limits_config[high_premium_funds[i]]

\* C8: the lookup loop visits the threshold-crossing entries in ranked order and
\* all of them, whatever each lookup did: an entry whose lookup raised holds the
\* marker, every other entry holds what its own lookup returned, and the alert
\* is rendered and posted.
C8_LookupLoopContinues ==
    /\ (FUND_LIMIT_AVAILABLE /\ pc \in {"lookup", "fetch", "fetched"})
          => visited = SubSeq(high_premium_funds, 1, idx - 1)
    /\ (FUND_LIMIT_AVAILABLE /\ AfterLookups) =>
          /\ visited = high_premium_funds
          /\ \A c \in Range(high_premium_funds) :
                /\ outcome[c].kind \in {"raised", "returned"}
                /\ outcome[c].kind = "raised"
                      => fund_info[c].limit_info = UNABLE_TO_RETRIEVE
                /\ outcome[c].kind = "returned"
                      => fund_info[c].limit_info =
                            (IF outcome[c].value = <<>> THEN UNABLE_TO_RETRIEVE
                             ELSE outcome[c].value)
    /\ (FUND_LIMIT_AVAILABLE /\ pc \in {"resort", "done"} /\ high_premium_funds # <<>>)
          => posts = 1 /\ message.count = Len(high_premium_funds)

\* C8 witness: the first lookup raised, the second failed to fetch, the third
\* returned a limit, and the alert was posted.
C8_Witness ==
    /\ pc = "done"
    /\ Len(high_premium_funds) = 3
    /\ outcome[high_premium_funds[1]].kind = "raised"
    /\ outcome[high_premium_funds[2]] = Returned(FETCH_FAILED)
    /\ fund_info[high_premium_funds[3]].limit_info = <<"1", "0", "Y">>
    /\ posts = 1

\* C9: when the aggregator request fails the scraper returns two empty lists and
\* the run ends without any detail-page GET and without any POST.
C9_ScrapeFailure ==
    (~web.up /\ pc # "start") =>
        /\ fund_basic_data = <<>> /\ fund_valuation_data = <<>>
        /\ pc \in {"scraped", "done"}
        /\ gets = <<>> /\ posts = 0 /\ message = NoMessage

\* C9 witness: the request failed although tables were served, and the run ended.
C9_Witness == web = SiteError /\ pc = "done"

\* C10: a run posts once if some fund crossed the threshold and never otherwise;
\* whatever the webhook answers, no second POST follows and the run completes.
C10_OnePost ==
    /\ posts <= 1
    /\ pc \in {"resort", "done"} => posts = (IF high_premium_funds # <<>> THEN 1 ELSE 0)
    /\ pc \notin {"resort", "done"} => posts = 0 /\ post_outcome = "none"
    /\ post_outcome # "none" => posts = 1

\* C10 witness: the POST raised, and the run ended after that one POST.
C10_Witness == pc = "done" /\ post_outcome = "exception" /\ posts = 1

\* the number M of funds of the run whose premium is at least the threshold
CrossingCount == Cardinality({c \in DOMAIN fund_info : Crosses(fund_info[c].premium_rate)})

\* C11: for M threshold-crossing funds the alert's header reports M, its entries
\* are the first min(M, 10) of the ranked filtered list, numbered from 1 in that
\* order, and the remainder line is present exactly when M > 10, with M - 10.
C11_AlertCapsEntries ==
    (pc \in {"resort", "done"} /\ high_premium_funds # <<>>) =>
        LET M == CrossingCount
            shown == IF M <= 10 THEN M ELSE 10
        IN  /\ posts = 1
            /\ Len(high_premium_funds) = M
            /\ message.count = M
            /\ message.threshold = premium_threshold
            /\ Len(message.entries) = shown
            /\ \A i \in 1..Len(message.entries) :
                  /\ message.entries[i].index = i
                  /\ message.entries[i].code = high_premium_funds[i]
                  /\ message.entries[i].name = fund_info[high_premium_funds[i]].name
                  /\ message.entries[i].premium_rate
                        = fund_info[high_premium_funds[i]].premium_rate
            /\ message.has_more <=> M > 10
            /\ message.has_more => message.more = M - 10

\* C11 witness: 12 funds crossed; the alert lists 10 entries and 2 more.
C11_Witness ==
    /\ pc = "done"
    /\ CrossingCount = 12
    /\ posts = 1
    /\ Len(message.entries) = 10
    /\ message.entries[10].code = high_premium_funds[10]
    /\ message.has_more /\ message.more = 2

\* C11 witness at the cap: exactly 10 funds crossed and no remainder line follows.
TenFundsNoRemainder ==
    /\ pc = "done"
    /\ CrossingCount = 10
    /\ Len(message.entries) = 10
    /\ ~message.has_more

\* whether a row of a table qualifies: enough cells, and a first cell whose text
\* begins with SH or SZ and is at least 6 characters long
Qualifies(row, min_cells) ==
    /\ Len(row) >= min_cells
    /\ LET text == Strip(row[1])
       IN  /\ Len(text) >= 6
           /\ <<text[1], text[2]>> \in {<<"S", "H">>, <<"S", "Z">>}

QualifiesBasic(row) == Qualifies(row, 6)

QualifiesValuation(row) == Qualifies(row, 4)

\* the rows after the header
DataRows(table) == IF table = <<>> THEN <<>> ELSE SubSeq(table, 2, Len(table))

\* record k of a list was read from row k of the qualifying rows
ReadFrom(data, rows) ==
    /\ Len(data) = Len(rows)
    /\ \A k \in 1..Len(rows) : data[k].code = Strip(rows[k][1])

\* C12: a row after the header yields a record exactly when it has at least 6
\* cells (basic table) or 4 cells (valuation table) and its first cell's text
\* starts with SH or SZ and is at least 6 long; other rows leave nothing, and
\* the records are in the order of their rows.
C12_RowAcceptance ==
    (pc = "scraped" /\ web.up) =>
        LET basic_rows == SelectSeq(DataRows(web.referencetable), QualifiesBasic)
            valuation_rows == SelectSeq(DataRows(web.estimationtable), QualifiesValuation)
        IN  /\ ReadFrom(fund_basic_data, basic_rows)
            /\ \A k \in 1..Len(basic_rows) :
                  /\ fund_basic_data[k].price = basic_rows[k][2]
                  /\ fund_basic_data[k].name = basic_rows[k][6]
            /\ ReadFrom(fund_valuation_data, valuation_rows)
            /\ \A k \in 1..Len(valuation_rows) :
                  /\ fund_valuation_data[k].official_estimate = valuation_rows[k][2]
                  /\ fund_valuation_data[k].premium = valuation_rows[k][4]

\* C12 witness: a 4-cell row of SZ160416, then a 6-cell row of SH501300: the
\* basic list holds the second only, the valuation list both, in row order.
C12_Witness ==
    /\ pc = "scraped"
    /\ DataRows(web.referencetable) = <<CellsRow(SZ160416, 4), CellsRow(SH501300, 6)>>
    /\ Len(fund_basic_data) = 1
    /\ fund_basic_data[1].code = SH501300
    /\ Len(fund_valuation_data) = 2
    /\ fund_valuation_data[1].code = SZ160416
    /\ fund_valuation_data[2].code = SH501300

\* C12 witness for codes: a 6-cell row whose first cell is 'SH501' left nothing,
\* the 6-cell row of 'SZ1604' after it was read into both lists.
ShortCodeExcluded ==
    /\ pc = "scraped"
    /\ DataRows(web.referencetable) = <<CellsRow(SH501, 6), CellsRow(SZ1604, 6)>>
    /\ Len(fund_basic_data) = 1 /\ fund_basic_data[1].code = SZ1604
    /\ Len(fund_valuation_data) = 1 /\ fund_valuation_data[1].code = SZ1604


\* the code a detail-page request carries for a fund: the digits after SH or SZ
RequestCode(c) == SubSeq(c, 3, Len(c))

\* C13: detail pages are requested only after the aggregator page was fetched,
\* and only for codes that cross the threshold and have no predefined limit; an
\* entry that does not cross keeps a blank limit-info to the end of the run and
\* no detail page is requested for it.
C13_LookupsOnlyForCrossing ==
    /\ pc \in {"start", "scraped", "collected", "ranked"} => gets = <<>>
    /\ \A i \in 1..Len(gets) :
          \E c \in DOMAIN fund_info :
              /\ Crosses(fund_info[c].premium_rate)
              /\ c \notin DOMAIN fund_limits_config
              /\ gets[i] = RequestCode(c)
    /\ \A c \in DOMAIN fund_info :
          ~Crosses(fund_info[c].premium_rate) =>
              /\ fund_info[c].limit_info = <<>>
              /\ outcome[c] = NotLookedUp
              /\ RequestCode(c) \notin Range(gets)

\* C13 witness: the run ended; SH501300 at 8.50% was requested, SZ160416 at 4.99%
\* was not and its limit-info is blank.
C13_Witness ==
    /\ pc = "done"
    /\ premium_threshold = 500
    /\ DOMAIN fund_info = {SH501300, SZ160416}
    /\ fund_info[SZ160416].premium_rate = P499
    /\ fund_info[SZ160416].limit_info = <<>>
    /\ gets = <<RequestCode(SH501300), RequestCode(SH501300), RequestCode(SH501300)>>
    /\ fund_info[SH501300].limit_info = FETCH_FAILED

\* C13 witness for overrides: three funds crossed, SH501300 has a predefined
\* limit; the other two were requested and SH501300 was not.
OverrideNotRequested ==
    /\ pc = "done"
    /\ Len(high_premium_funds) = 3
    /\ SH501300 \in DOMAIN fund_limits_config
    /\ Range(gets) = {RequestCode(SZ160416), RequestCode(SZ161128)}


Least(S) == CHOOSE k \in S : \A m \in S : k <= m

\* the cap phrase occurs in the text with something other than ')' after it
HasCapture(text) == \E i \in 1..(Len(text) - 1) : text[i] = "CAP" /\ text[i + 1] # ")"

\* what follows the first such occurrence, up to the next ')' or the end
AfterCap(text) ==
    LET i == Least({k \in 1..(Len(text) - 1) : text[k] = "CAP" /\ text[k + 1] # ")"})
        stops == {k \in (i + 1)..Len(text) : text[k] = ")"}
    IN  SubSeq(text, i + 1, IF stops = {} THEN Len(text) ELSE Least(stops) - 1)

OpenParens == {"(", "FL"}

CloseParens == {")", "FR"}

\* the text holds an opening parenthesis with a closing one after it
HasParens(text) ==
    \E i, k \in 1..Len(text) : i < k /\ text[i] \in OpenParens /\ text[k] \in CloseParens

\* what stands between the first such opening parenthesis and the next closing one
Parenthesized(text) ==
    LET i == Least({m \in 1..Len(text) :
                       text[m] \in OpenParens
                       /\ \E k \in (m + 1)..Len(text) : text[k] \in CloseParens})
        k == Least({m \in (i + 1)..Len(text) : text[m] \in CloseParens})
    IN  SubSeq(text, i + 1, k - 1)

ParenOrMarker(text) == IF HasParens(text) THEN Parenthesized(text) ELSE LARGE_LIMITED

\* the cells of the trading-status sections of the page, in document order
StatusCells ==
    Flatten([i \in 1..Len(arg.sections) |->
                IF "STATUS" \in Range(arg.sections[i].title)
                THEN arg.sections[i].cells ELSE <<>>])

\* a cell at which strategy 1 returns, a span at which strategy 2 returns, a text
\* node at which strategy 3 returns
Decides1(c) ==
    \/ HasCapture(c)
    \/ "CAP" \notin Range(c) /\ ("LARGE" \in Range(c) \/ "SUSPENDED" \in Range(c))

Decides2(t) == HasCapture(t)

Decides3(t) == "LARGE" \in Range(t) /\ ("CAP" \notin Range(t) \/ HasCapture(t))

Matches1 == \E i \in 1..Len(StatusCells) : Decides1(StatusCells[i])

Matches2 == \E i \in 1..Len(arg.spans) : Decides2(arg.spans[i])

Matches3 == \E i \in 1..Len(arg.strings) : Decides3(arg.strings[i])

\* what a text that contains the cap phrase or the large-amount phrase yields
Yield(t) ==
    IF "CAP" \in Range(t) THEN AfterCap(t)
    ELSE IF "LARGE" \in Range(t) THEN ParenOrMarker(t)
    ELSE SUSPENDED

Yield1 == Yield(StatusCells[Least({i \in 1..Len(StatusCells) : Decides1(StatusCells[i])})])

Yield2 == AfterCap(arg.spans[Least({i \in 1..Len(arg.spans) : Decides2(arg.spans[i])})])

Yield3 == Yield(arg.strings[Least({i \in 1..Len(arg.strings) : Decides3(arg.strings[i])})])

\* the strategies in the order 1, 2, 3: the first that matches gives the result,
\* and the 'unrestricted' marker is returned when none does
FirstMatchWins ==
    ret = IF Matches1 THEN Yield1
          ELSE IF Matches2 THEN Yield2
          ELSE IF Matches3 THEN Yield3
          ELSE UNRESTRICTED

\* the amount a parenthesis holds: its content, the cap phrase before it aside
Amounts(text) ==
    LET inside == Parenthesized(text)
    IN  {inside} \cup (IF inside # <<>> /\ Head(inside) = "CAP" THEN {Tail(inside)} ELSE {})

\* the first trading-status cell that holds one of the three phrases
FirstPhraseCell ==
    StatusCells[Least({i \in 1..Len(StatusCells) :
                          Range(StatusCells[i]) \cap {"CAP", "LARGE", "SUSPENDED"} # {}})]

HasPhraseCell ==
    \E i \in 1..Len(StatusCells) :
        Range(StatusCells[i]) \cap {"CAP", "LARGE", "SUSPENDED"} # {}

\* a trading-status cell with the large-amount phrase yields the parenthesized
\* amount if there is one, else the marker '限大额'
LargeCellYieldsAmount ==
    (HasPhraseCell /\ "LARGE" \in Range(FirstPhraseCell)) =>
        IF HasParens(FirstPhraseCell) THEN ret \in Amounts(FirstPhraseCell)
        ELSE ret = LARGE_LIMITED

\* C14: the extractor tries strategy 1 (cells of the trading-status section),
\* 2 (cap phrase in a span), 3 (text nodes with the large-amount phrase) in
\* that order and returns what the first matching one yields; it returns
\* '无限制' if and only if none matches; in strategy 1 a cell holding the
\* large-amount phrase yields the parenthesized amount, else the marker.
C14_ThreeStrategies ==
    pc = "returned" =>
        /\ FirstMatchWins
        /\ ret = UNRESTRICTED <=> ~(Matches1 \/ Matches2 \/ Matches3)
        /\ LargeCellYieldsAmount

\* C14, what does hold: the order of the strategies, the first match winning,
\* '无限制' when none matches, and for a cell or text node with the large-amount
\* phrase and without the cap phrase the parenthesized text or the marker.
C14_FirstMatchWins == pc = "returned" => FirstMatchWins

\* a trading-status cell '限大额（单日累计购买上限10Y）' gave '10Y）'
WideCapKeepsParen ==
    /\ pc = "returned"
    /\ StatusCells = <<WideCapCell>>
    /\ ret = <<"1", "0", "Y", "FR">>

\* strategy 1 had nothing to return, a span held the cap phrase and a text node
\* before it the large-amount phrase: strategy 2 gave the result
SecondBeforeThird ==
    /\ pc = "returned"
    /\ ~Matches1 /\ Matches2 /\ Matches3
    /\ arg.strings[1] = ParenCell
    /\ ret = <<"2", "0", "Y">>

====
